---- MODULE Spec2Model ----
(***************************************************************************)
(* AG-UI client with frontend tools (src/src/client_with_frontend_tools.py) *)
(* as a state machine: the session object AGUIClientWithTools, one          *)
(* send_message cycle at a time (request, streamed lines, tool dispatch,    *)
(* tool_result POSTs) and the interactive loop of main() around it.         *)
(***************************************************************************)
EXTENDS Integers, Sequences, FiniteSets, TLC

VARIABLES
    thread_id,           \* self.thread_id of the session
    pc,                  \* where main() is: "input", "streaming", "exited"
    conn,                \* the httpx client/stream of the cycle: "open"/"closed"
    pending_tool_calls,  \* toolCallId -> [name, buffer] of the running cycle
    lines,               \* the transport lines the cycle has consumed so far
    yielded,             \* the events send_message has yielded to its caller
    infos,               \* the info popped at every TOOL_CALL_END
    calls,               \* the handler_event of every _handle_tool_call
    posts,               \* every client.post to /tool_result, in order
    request,             \* thread_id field of the cycle's run request
    sends,               \* run requests the send_message call has issued
    exc                  \* the exception that left send_message, or NoExc

vars == <<thread_id, pc, conn, pending_tool_calls, lines, yielded, infos,
          calls, posts, request, sends, exc>>

----------------------------------------------------------------------------
(* Bounds of the model *)

\* lines the server streams in one cycle
MaxLines == 3
\* lines of one cycle in the assembler specification
MaxAsmLines == 4

----------------------------------------------------------------------------
(* Python values *)

\* Python's None (an absent JSON field read with dict.get)
None == "<None>"
NoExc == "<no exception>"

\* bool(x) of a str-or-None value: None and "" are falsy
Truthy(x) == x # None /\ x # ""

----------------------------------------------------------------------------
(* JSON text of an argument buffer: a sequence of lexical pieces.  The      *)
(* quote characters are pieces of their own, so that str.replace("'", '"')  *)
(* and json.loads act on them as they act on the characters.                *)

DQ == "\""
SQ == "'"
LBRACE == "{"
RBRACE == "}"
COLON == ":"
COMMA == ","
DIGIT == "1"

\* decoded JSON values, tagged with their Python type
PyInt(n) == [t |-> "int", v |-> n]
PyStr(s) == [t |-> "str", v |-> s]
PyDict(f) == [t |-> "dict", v |-> f]
EmptyDict == PyDict(<<>>)

ParseFail == [ok |-> FALSE, val |-> PyInt(0), next |-> 0]
ParseOk(v, n) == [ok |-> TRUE, val |-> v, next |-> n]

\* index of the first DQ at or after i, or 0
RECURSIVE FindDQ(_, _)
FindDQ(s, i) ==
    IF i > Len(s) THEN 0
    ELSE IF s[i] = DQ THEN i
    ELSE FindDQ(s, i + 1)

\* a string literal starting at i: DQ, any pieces but DQ, DQ
ParseString(s, i) ==
    IF i > Len(s) \/ s[i] # DQ THEN ParseFail
    ELSE LET j == FindDQ(s, i + 1)
         IN  IF j = 0 THEN ParseFail
             ELSE ParseOk(PyStr(SubSeq(s, i + 1, j - 1)), j + 1)

\* a run of digits starting at i (precondition: s[i] = DIGIT)
RECURSIVE ParseInt(_, _, _)
ParseInt(s, i, acc) ==
    IF i <= Len(s) /\ s[i] = DIGIT THEN ParseInt(s, i + 1, acc * 10 + 1)
    ELSE ParseOk(PyInt(acc), i)

\* f with key k bound to v (a later duplicate key wins, as in a Python dict)
DictPut(f, k, v) ==
    [x \in (DOMAIN f) \cup {k} |-> IF x = k THEN v ELSE f[x]]

RECURSIVE ParseValue(_, _)
RECURSIVE ParseMembers(_, _, _)

\* the members of an object from i on: key ":" value ("," members | "}")
ParseMembers(s, i, acc) ==
    LET k == ParseString(s, i)
    IN  IF ~k.ok THEN ParseFail
        ELSE IF k.next > Len(s) \/ s[k.next] # COLON THEN ParseFail
        ELSE LET v == ParseValue(s, k.next + 1)
             IN  IF ~v.ok THEN ParseFail
                 ELSE IF v.next > Len(s) THEN ParseFail
                 ELSE LET d == DictPut(acc, k.val.v, v.val)
                      IN  IF s[v.next] = RBRACE
                              THEN ParseOk(PyDict(d), v.next + 1)
                          ELSE IF s[v.next] = COMMA
                              THEN ParseMembers(s, v.next + 1, d)
                          ELSE ParseFail

ParseValue(s, i) ==
    IF i > Len(s) THEN ParseFail
    ELSE IF s[i] = DIGIT THEN ParseInt(s, i, 0)
    ELSE IF s[i] = DQ THEN ParseString(s, i)
    ELSE IF s[i] = LBRACE
        THEN IF i + 1 <= Len(s) /\ s[i + 1] = RBRACE
                 THEN ParseOk(EmptyDict, i + 2)
             ELSE ParseMembers(s, i + 1, <<>>)
    ELSE ParseFail

\* json.loads(buf): the value, or ok = FALSE for JSONDecodeError
\* (an empty text, a malformed value, or extra data after the value)
json_loads(buf) ==
    LET r == ParseValue(buf, 1)
    IN  IF r.ok /\ r.next = Len(buf) + 1
            THEN [ok |-> TRUE, val |-> r.val]
        ELSE [ok |-> FALSE, val |-> EmptyDict]

\* buf.replace("'", '"')
ReplaceQuotes(buf) ==
    [i \in 1..Len(buf) |-> IF buf[i] = SQ THEN DQ ELSE buf[i]]

----------------------------------------------------------------------------
(* Events and transport lines *)

Ev(type, threadId, toolCallId, toolCallName, delta) ==
    [type |-> type, threadId |-> threadId, toolCallId |-> toolCallId,
     toolCallName |-> toolCallName, delta |-> delta]

\* what event.get() reads from a payload that carries no event
NoEvent == Ev(None, None, None, None, <<>>)

\* a line of response.aiter_lines(): marker is line.startswith("data: "),
\* json says what json.loads makes of the rest: "object" (a dict, read
\* through event), "scalar" (a JSON value that is no object) or "malformed"
Line(marker, json, event) == [marker |-> marker, json |-> json, event |-> event]

ThreadIds == {"T1", "T2"}
CallIds == {"A", "B"}

\* argument fragments:  {"include_temperature":   1}   {'x':1}   1
DeltaOpen == <<LBRACE, DQ, "include_temperature", DQ, COLON>>
DeltaClose == <<DIGIT, RBRACE>>
DeltaSingleQuoted == <<LBRACE, SQ, "x", SQ, COLON, DIGIT, RBRACE>>
DeltaNumber == <<DIGIT>>
Deltas == {DeltaOpen, DeltaClose, DeltaSingleQuoted, DeltaNumber}

Started(t) == Ev("RUN_STARTED", t, None, None, <<>>)
Plain(type) == Ev(type, None, None, None, <<>>)
Text == Ev("TEXT_MESSAGE_CONTENT", None, None, None, <<"hello">>)
Start(i, n) == Ev("TOOL_CALL_START", None, i, n, <<>>)
Args(i, d) == Ev("TOOL_CALL_ARGS", None, i, None, d)
End(i, n) == Ev("TOOL_CALL_END", None, i, n, <<>>)

ToolEventTypes == {"TOOL_CALL_START", "TOOL_CALL_ARGS", "TOOL_CALL_END"}

\* the events of the full specification: every kind, one tool call id
RunEvents ==
    {Started(t) : t \in ThreadIds \cup {None, ""}}
    \cup {Plain("RUN_FINISHED"), Plain("RUN_ERROR"), Plain("CUSTOM"), Text}
ToolEvents ==
    {Start("A", n) : n \in {"read_climate_sensors", "get_weather"}}
    \cup {Args("A", d) : d \in {DeltaSingleQuoted, DeltaNumber}}
    \cup {End("A", n) : n \in {None, "get_user_location"}}
DataLines == {Line(TRUE, "object", e) : e \in RunEvents \cup ToolEvents}
\* a payload that is no JSON text, and one that is a JSON value but no object
BadLines == {Line(TRUE, "malformed", NoEvent), Line(TRUE, "scalar", NoEvent)}
\* no "data: " marker: a blank or keep-alive line, and a payload that would
\* decode to an event had it carried the marker
NonDataLines ==
    {Line(FALSE, "malformed", NoEvent), Line(FALSE, "object", Started("T2"))}
AllLines == DataLines \cup BadLines \cup NonDataLines

\* the events of the assembler specification: two interleaved tool calls
AsmEvents ==
    {Start(i, n) : i \in CallIds, n \in {"read_climate_sensors", "get_weather"}}
    \cup {Args(i, d) : i \in CallIds, d \in Deltas \ {DeltaNumber}}
    \cup {End(i, None) : i \in CallIds}
    \cup {Text}
AsmLines == {Line(TRUE, "object", e) : e \in AsmEvents}

----------------------------------------------------------------------------
(* The frontend tools *)

FRONTEND_TOOLS == {"read_climate_sensors", "get_user_location"}

\* the keyword parameters of each tool function
Params(name) ==
    IF name = "read_climate_sensors"
        THEN {<<"include_temperature">>, <<"include_humidity">>}
    ELSE {}

\* bool(v) of a decoded JSON value
PyBool(v) ==
    IF v.t = "int" THEN v.v # 0
    ELSE IF v.t = "str" THEN v.v # <<>>
    ELSE DOMAIN v.v # {}

\* args.get(k, True) for a keyword parameter that defaults to True
ArgOrTrue(args, k) == IF k \in DOMAIN args THEN PyBool(args[k]) ELSE TRUE

read_climate_sensors(args) ==
    [temperature |->
        IF ArgOrTrue(args, <<"include_temperature">>) THEN "22.5" ELSE "0.0",
     humidity |->
        IF ArgOrTrue(args, <<"include_humidity">>) THEN "45.0" ELSE "0.0",
     air_quality_index |-> "75"]

get_user_location ==
    [latitude |-> "52.3676", longitude |-> "4.9041", accuracy |-> "10.0",
     city |-> "Amsterdam"]

\* tool_func(**arguments): the value returned, or the exception raised
Invoke(name, arguments) ==
    IF arguments.t # "dict"
        THEN [ok |-> FALSE, val |-> PyStr("TypeError: not a mapping")]
    ELSE IF ~(DOMAIN arguments.v \subseteq Params(name))
        THEN [ok |-> FALSE, val |-> PyStr("TypeError: unexpected keyword")]
    ELSE IF name = "read_climate_sensors"
        THEN [ok |-> TRUE, val |-> PyDict(read_climate_sensors(arguments.v))]
    ELSE [ok |-> TRUE, val |-> PyDict(get_user_location)]

\* the try block of _handle_tool_call up to the POST
RunTool(tools, tool_name, arguments) ==
    IF tool_name \notin tools
        THEN [ok |-> FALSE, val |-> PyStr("Unknown tool")]
    ELSE Invoke(tool_name, arguments)

\* a POST to /tool_result: its body (tool_call_id and a result or an error
\* field; thread_id is what body.get("thread_id") reads, and the body has
\* no such key) and whether client.post returned; call is set by the caller
\* to the number of the dispatched call that issued it
Post(tool_call_id, field, value, returned) ==
    [tool_call_id |-> tool_call_id, field |-> field, value |-> value,
     thread_id |-> None, returned |-> returned, call |-> 0]

\* _handle_tool_call without its try/except: a failing tool posts nothing
\* and its exception leaves the dispatcher
HandleToolCallUncaught(tools, event, post1, post2) ==
    LET r == RunTool(tools, event.toolCallName, event.arguments)
    IN  IF r.ok
            THEN [posts |-> <<Post(event.toolCallId, "result", r.val, post1)>>,
                  exc |-> IF post1 THEN NoExc ELSE "httpx.TransportError"]
        ELSE [posts |-> <<>>,
              exc |-> IF event.toolCallName \in tools THEN "TypeError"
                      ELSE "ValueError"]

\* _handle_tool_call(event, client): the POSTs it issues and the exception
\* that leaves it.  post1 and post2 say whether the first and the second
\* client.post return (TRUE) or raise a transport error (FALSE).
_handle_tool_call(tools, event, post1, post2) ==
    LET r == RunTool(tools, event.toolCallName, event.arguments)
        id == event.toolCallId
        err == Post(id, "error", IF r.ok THEN PyStr("post failed") ELSE r.val,
                    IF r.ok THEN post2 ELSE post1)
    IN  IF r.ok /\ post1
            THEN [posts |-> <<Post(id, "result", r.val, TRUE)>>, exc |-> NoExc]
        ELSE IF r.ok
            THEN [posts |-> <<Post(id, "result", r.val, FALSE), err>>,
                  exc |-> IF post2 THEN NoExc ELSE "httpx.TransportError"]
        ELSE [posts |-> <<err>>,
              exc |-> IF post1 THEN NoExc ELSE "httpx.TransportError"]

----------------------------------------------------------------------------
(* The session and one send_message cycle *)

EmptyMap == <<>>

Init ==
    /\ thread_id = None
    /\ pc = "input"
    /\ conn = "closed"
    /\ pending_tool_calls = EmptyMap
    /\ lines = <<>>
    /\ yielded = <<>>
    /\ infos = <<>>
    /\ calls = <<>>
    /\ posts = <<>>
    /\ request = None
    /\ sends = 0
    /\ exc = NoExc

\* RequestThread that never attaches the thread id
RequestThreadNever(tid) == None

\* request_data.get("thread_id") of the run request: set only if truthy
RequestThread(tid) == IF Truthy(tid) THEN tid ELSE None

\* Raise without the context managers: the connection stays as it was
RaiseLeavesOpen(e) ==
    /\ exc' = e
    /\ conn' = conn
    /\ pc' = "exited"

\* an exception leaves send_message: both context managers release the
\* connection, and main()'s except clause, outside its loop, ends the loop
Raise(e) ==
    /\ exc' = e
    /\ conn' = "closed"
    /\ pc' = "exited"

\* SendMessage with the pending map kept from the cycle before, as if it
\* were a field of the session
SendMessageKeepsPending(outcome) ==
    /\ pc = "input"
    /\ request' = RequestThread(thread_id)
    /\ sends' = 1
    /\ lines' = <<>>
    /\ yielded' = <<>>
    /\ infos' = <<>>
    /\ calls' = <<>>
    /\ posts' = <<>>
    /\ pending_tool_calls' = pending_tool_calls
    /\ IF outcome = "ok"
           THEN /\ conn' = "open"
                /\ pc' = "streaming"
                /\ exc' = NoExc
       ELSE Raise(outcome)
    /\ UNCHANGED thread_id

\* SendMessage that sends the request a second time when the first fails
SendMessageRetries(outcome) ==
    /\ pc = "input"
    /\ request' = RequestThread(thread_id)
    /\ sends' = IF outcome = "ok" THEN 1 ELSE 2
    /\ lines' = <<>>
    /\ yielded' = <<>>
    /\ infos' = <<>>
    /\ calls' = <<>>
    /\ posts' = <<>>
    /\ pending_tool_calls' = EmptyMap
    /\ IF outcome = "ok"
           THEN /\ conn' = "open"
                /\ pc' = "streaming"
                /\ exc' = NoExc
       ELSE Raise(outcome)
    /\ UNCHANGED thread_id

\* main() reads a message and calls send_message: the request is built and
\* sent; outcome is what the transport makes of it
SendMessage(outcome) ==
    /\ pc = "input"
    /\ request' = RequestThread(thread_id)
    /\ sends' = 1
    /\ lines' = <<>>
    /\ yielded' = <<>>
    /\ infos' = <<>>
    /\ calls' = <<>>
    /\ posts' = <<>>
    /\ pending_tool_calls' = EmptyMap
    /\ IF outcome = "ok"
           THEN /\ conn' = "open"
                /\ pc' = "streaming"
                /\ exc' = NoExc
       ELSE Raise(outcome)
    /\ UNCHANGED thread_id

SendOutcomes == {"ok", "httpx.ConnectError", "httpx.HTTPStatusError"}

\* main() reads ":q" or "quit"
Quit ==
    /\ pc = "input"
    /\ pc' = "exited"
    /\ UNCHANGED <<thread_id, conn, pending_tool_calls, lines, yielded, infos,
                   calls, posts, request, sends, exc>>

\* the user interrupts, at the prompt or while a response is being read: the
\* exception unwinds send_message through both context managers, and main()'s
\* except KeyboardInterrupt clause, outside its loop, ends the loop
Interrupt ==
    /\ pc \in {"input", "streaming"}
    /\ Raise("KeyboardInterrupt")
    /\ UNCHANGED <<thread_id, pending_tool_calls, lines, yielded, infos,
                   calls, posts, request, sends>>

\* the server ends the response: the async for ends and the cycle returns
StreamClosed ==
    /\ pc = "streaming"
    /\ conn' = "closed"
    /\ pc' = "input"
    /\ UNCHANGED <<thread_id, pending_tool_calls, lines, yielded, infos,
                   calls, posts, request, sends, exc>>

\* the connection drops while aiter_lines() waits for the next line
StreamDropped ==
    /\ pc = "streaming"
    /\ Raise("httpx.ReadError")
    /\ UNCHANGED <<thread_id, pending_tool_calls, lines, yielded, infos,
                   calls, posts, request, sends>>

\* HasMarker that takes every line for a data frame
HasMarkerAlways(ln) == TRUE

\* line.startswith("data: ")
HasMarker(ln) == ln.marker

\* a line without the marker: the loop body does nothing
SkipNonData(ln) ==
    /\ pc = "streaming"
    /\ ~HasMarker(ln)
    /\ lines' = Append(lines, ln)
    /\ UNCHANGED <<thread_id, pc, conn, pending_tool_calls, yielded, infos,
                   calls, posts, request, sends, exc>>

\* json.loads(data) raises JSONDecodeError: except ...: continue
SkipMalformed(ln) ==
    /\ pc = "streaming"
    /\ HasMarker(ln)
    /\ ln.json = "malformed"
    /\ lines' = Append(lines, ln)
    /\ UNCHANGED <<thread_id, pc, conn, pending_tool_calls, yielded, infos,
                   calls, posts, request, sends, exc>>

\* json.loads(data) returns a value that is no dict: event.get raises
\* AttributeError, which except json.JSONDecodeError does not catch
NonDictPayload(ln) ==
    /\ pc = "streaming"
    /\ HasMarker(ln)
    /\ ln.json = "scalar"
    /\ lines' = Append(lines, ln)
    /\ Raise("AttributeError")
    /\ UNCHANGED <<thread_id, pending_tool_calls, yielded, infos, calls,
                   posts, request, sends>>

\* a decoded event of the given kind
Decoded(ln, types) ==
    /\ pc = "streaming"
    /\ HasMarker(ln)
    /\ ln.json = "object"
    /\ ln.event.type \in types

\* m with key k bound to v
MapPut(m, k, v) == [x \in (DOMAIN m) \cup {k} |-> IF x = k THEN v ELSE m[x]]
\* m without key k
MapDel(m, k) == [x \in (DOMAIN m) \ {k} |-> m[x]]

\* pending_tool_calls[tcid] = {"name": ..., "buffer": ""}
StartEntry(pending, ev) ==
    MapPut(pending, ev.toolCallId, [name |-> ev.toolCallName, buffer |-> <<>>])

ToolCallStart(ln) ==
    /\ Decoded(ln, {"TOOL_CALL_START"})
    /\ pending_tool_calls' = StartEntry(pending_tool_calls, ln.event)
    /\ lines' = Append(lines, ln)
    /\ UNCHANGED <<thread_id, pc, conn, yielded, infos, calls, posts, request, sends,
                   exc>>

\* AppendArgs with the fragment put in front of the buffer
AppendArgsPrepended(pending, ev) ==
    IF ev.toolCallId \in DOMAIN pending
        THEN [pending EXCEPT ![ev.toolCallId].buffer = ev.delta \o @]
    ELSE MapPut(pending, ev.toolCallId,
                [name |-> ev.toolCallName, buffer |-> ev.delta])

\* AppendArgs that ignores a fragment whose id has no entry
AppendArgsDropsUnstarted(pending, ev) ==
    IF ev.toolCallId \in DOMAIN pending
        THEN [pending EXCEPT ![ev.toolCallId].buffer = @ \o ev.delta]
    ELSE pending

\* buffer += delta, or a new entry when no start was seen
AppendArgs(pending, ev) ==
    IF ev.toolCallId \in DOMAIN pending
        THEN [pending EXCEPT ![ev.toolCallId].buffer = @ \o ev.delta]
    ELSE MapPut(pending, ev.toolCallId,
                [name |-> ev.toolCallName, buffer |-> ev.delta])

ToolCallArgs(ln) ==
    /\ Decoded(ln, {"TOOL_CALL_ARGS"})
    /\ pending_tool_calls' = AppendArgs(pending_tool_calls, ln.event)
    /\ lines' = Append(lines, ln)
    /\ UNCHANGED <<thread_id, pc, conn, yielded, infos, calls, posts, request, sends,
                   exc>>

\* info = pending_tool_calls.pop(tcid, None)
PopInfo(pending, tcid) ==
    IF tcid \in DOMAIN pending
        THEN [found |-> TRUE, name |-> pending[tcid].name,
              buffer |-> pending[tcid].buffer]
    ELSE [found |-> FALSE, name |-> None, buffer |-> <<>>]

\* ParseArgs without the fallback on single quotes
ParseArgsStrictOnly(info) ==
    IF info.found /\ info.buffer # <<>> /\ json_loads(info.buffer).ok
        THEN json_loads(info.buffer).val
    ELSE EmptyDict

\* args of the assembled call: strict decode, then one decode with single
\* quotes replaced, else {}; an absent entry or an empty buffer gives {}
ParseArgs(info) ==
    IF info.found /\ info.buffer # <<>>
        THEN LET strict == json_loads(info.buffer)
                 repaired == json_loads(ReplaceQuotes(info.buffer))
             IN  IF strict.ok THEN strict.val
                 ELSE IF repaired.ok THEN repaired.val
                 ELSE EmptyDict
    ELSE EmptyDict

\* HandlerEvent with the name always read from the END event
HandlerEventNameFromEnd(info, ev) ==
    [toolCallName |-> ev.toolCallName,
     toolCallId |-> ev.toolCallId,
     arguments |-> ParseArgs(info)]

\* HandlerEvent with the name always read from the popped entry
HandlerEventNameFromEntry(info, ev) ==
    [toolCallName |-> info.name,
     toolCallId |-> ev.toolCallId,
     arguments |-> ParseArgs(info)]

\* the consolidated event handed to _handle_tool_call
HandlerEvent(info, ev) ==
    [toolCallName |-> IF info.found THEN info.name ELSE ev.toolCallName,
     toolCallId |-> ev.toolCallId,
     arguments |-> ParseArgs(info)]

\* ToolCallEnd that starts the handler without awaiting it: the stream is
\* read on while no POST has been issued
ToolCallEndNotAwaited(ln, post1, post2) ==
    /\ Decoded(ln, {"TOOL_CALL_END"})
    /\ LET info == PopInfo(pending_tool_calls, ln.event.toolCallId)
           handler_event == HandlerEvent(info, ln.event)
       IN  /\ pending_tool_calls' = MapDel(pending_tool_calls, ln.event.toolCallId)
           /\ infos' = Append(infos, info)
           /\ calls' = Append(calls, handler_event)
    /\ lines' = Append(lines, ln)
    /\ UNCHANGED <<thread_id, pc, conn, yielded, posts, request, sends, exc>>

\* a TOOL_CALL_END line: the entry is popped, the arguments decoded, and
\* _handle_tool_call awaited before the loop reads the next line
ToolCallEnd(ln, post1, post2) ==
    /\ Decoded(ln, {"TOOL_CALL_END"})
    /\ LET info == PopInfo(pending_tool_calls, ln.event.toolCallId)
           handler_event == HandlerEvent(info, ln.event)
           h == _handle_tool_call(FRONTEND_TOOLS, handler_event, post1, post2)
       IN  /\ pending_tool_calls' = MapDel(pending_tool_calls, ln.event.toolCallId)
           /\ infos' = Append(infos, info)
           /\ calls' = Append(calls, handler_event)
           /\ posts' = posts \o [i \in 1..Len(h.posts) |->
                                    [h.posts[i] EXCEPT !.call = Len(calls) + 1]]
           /\ IF h.exc = NoExc
                  THEN UNCHANGED <<pc, conn, exc>>
              ELSE Raise(h.exc)
    /\ lines' = Append(lines, ln)
    /\ UNCHANGED <<thread_id, yielded, request, sends>>

\* CaptureThread that lets every RUN_STARTED overwrite the thread id
CaptureThreadAlways(tid, ev) ==
    IF ev.type = "RUN_STARTED" THEN ev.threadId ELSE tid

\* self.thread_id after a non-tool event
CaptureThread(tid, ev) ==
    IF ev.type = "RUN_STARTED" /\ ~Truthy(tid) THEN ev.threadId ELSE tid

\* YieldEvent that yields the kinds main() knows and drops the others
YieldEventKnownOnly(ln) ==
    /\ pc = "streaming"
    /\ HasMarker(ln)
    /\ ln.json = "object"
    /\ ln.event.type \notin ToolEventTypes
    /\ thread_id' = CaptureThread(thread_id, ln.event)
    /\ yielded' =
          IF ln.event.type \in {"RUN_STARTED", "TEXT_MESSAGE_CONTENT",
                                "RUN_FINISHED", "RUN_ERROR"}
              THEN Append(yielded, ln.event)
          ELSE yielded
    /\ lines' = Append(lines, ln)
    /\ UNCHANGED <<pc, conn, pending_tool_calls, infos, calls, posts, request, sends,
                   exc>>

\* every other event: capture the thread id, yield the event
YieldEvent(ln) ==
    /\ pc = "streaming"
    /\ HasMarker(ln)
    /\ ln.json = "object"
    /\ ln.event.type \notin ToolEventTypes
    /\ thread_id' = CaptureThread(thread_id, ln.event)
    /\ yielded' = Append(yielded, ln.event)
    /\ lines' = Append(lines, ln)
    /\ UNCHANGED <<pc, conn, pending_tool_calls, infos, calls, posts, request, sends,
                   exc>>

Next ==
    \/ \E outcome \in SendOutcomes : SendMessage(outcome)
    \/ Quit
    \/ Interrupt
    \/ StreamClosed
    \/ StreamDropped
    \/ \E ln \in AllLines : Len(lines) < MaxLines /\ SkipNonData(ln)
    \/ \E ln \in AllLines : Len(lines) < MaxLines /\ SkipMalformed(ln)
    \/ \E ln \in AllLines : Len(lines) < MaxLines /\ NonDictPayload(ln)
    \/ \E ln \in AllLines : Len(lines) < MaxLines /\ ToolCallStart(ln)
    \/ \E ln \in AllLines : Len(lines) < MaxLines /\ ToolCallArgs(ln)
    \/ \E ln \in AllLines, post1, post2 \in BOOLEAN :
          Len(lines) < MaxLines /\ ToolCallEnd(ln, post1, post2)
    \/ \E ln \in AllLines : Len(lines) < MaxLines /\ YieldEvent(ln)

Spec == Init /\ [][Next]_vars

\* the assembler on its own: two tool calls interleaved with text, the
\* transport of the run request working
NextAsm ==
    \/ SendMessage("ok")
    \/ StreamClosed
    \/ \E ln \in AsmLines : Len(lines) < MaxAsmLines /\ ToolCallStart(ln)
    \/ \E ln \in AsmLines : Len(lines) < MaxAsmLines /\ ToolCallArgs(ln)
    \/ \E ln \in AsmLines, post1, post2 \in BOOLEAN :
          Len(lines) < MaxAsmLines /\ ToolCallEnd(ln, post1, post2)
    \/ \E ln \in AsmLines : Len(lines) < MaxAsmLines /\ YieldEvent(ln)

SpecAsm == Init /\ [][NextAsm]_vars

----------------------------------------------------------------------------
(* What the stream consumed so far says the assembler should hold *)

\* line ln decodes to an event of the given type for tool call id
IsToolEv(ln, type, id) ==
    /\ ln.marker
    /\ ln.json = "object"
    /\ ln.event.type = type
    /\ ln.event.toolCallId = id

IsEnd(ln) == ln.marker /\ ln.json = "object" /\ ln.event.type = "TOOL_CALL_END"

\* the last index <= k of a START or END for id in h, or 0
RECURSIVE LastReset(_, _, _)
LastReset(h, id, k) ==
    IF k = 0 THEN 0
    ELSE IF IsToolEv(h[k], "TOOL_CALL_START", id)
            \/ IsToolEv(h[k], "TOOL_CALL_END", id) THEN k
    ELSE LastReset(h, id, k - 1)

\* the deltas of the ARGS events for id among h[from..Len(h)], concatenated
RECURSIVE Fragments(_, _, _)
Fragments(h, id, from) ==
    IF from > Len(h) THEN <<>>
    ELSE (IF IsToolEv(h[from], "TOOL_CALL_ARGS", id)
              THEN h[from].event.delta ELSE <<>>)
         \o Fragments(h, id, from + 1)

\* id is open after h: started, or given fragments, since it last ended
ExpectedOpen(h, id) ==
    LET r == LastReset(h, id, Len(h))
    IN  \/ r > 0 /\ IsToolEv(h[r], "TOOL_CALL_START", id)
        \/ \E j \in (r + 1)..Len(h) : IsToolEv(h[j], "TOOL_CALL_ARGS", id)

\* the fragments for id since its most recent START (or END)
ExpectedBuffer(h, id) == Fragments(h, id, LastReset(h, id, Len(h)) + 1)

\* the name of the most recent START for id, None when it was never started
ExpectedName(h, id) ==
    LET r == LastReset(h, id, Len(h))
    IN  IF r > 0 /\ IsToolEv(h[r], "TOOL_CALL_START", id)
            THEN h[r].event.toolCallName
        ELSE None

\* the number of TOOL_CALL_END lines among h[1..k]
RECURSIVE EndCount(_, _)
EndCount(h, k) ==
    IF k = 0 THEN 0
    ELSE EndCount(h, k - 1) + (IF IsEnd(h[k]) THEN 1 ELSE 0)

\* the lines before line k
Before(h, k) == SubSeq(h, 1, k - 1)

----------------------------------------------------------------------------
(* Claims *)

\* C1: for every tool call id and every interleaving, the buffer held for
\* the id (while pending, and in the info popped at TOOL_CALL_END) is the
\* concatenation, in arrival order, of the deltas of exactly the
\* TOOL_CALL_ARGS events of that id since its most recent TOOL_CALL_START;
\* a duplicate START empties the buffer and replaces the name; no fragment
\* of another id appears in it.
C1_BufferIsConcatenation ==
    /\ \A id \in CallIds :
        /\ id \in DOMAIN pending_tool_calls <=> ExpectedOpen(lines, id)
        /\ id \in DOMAIN pending_tool_calls =>
            /\ pending_tool_calls[id].buffer = ExpectedBuffer(lines, id)
            /\ pending_tool_calls[id].name = ExpectedName(lines, id)
    /\ Len(infos) = EndCount(lines, Len(lines))
    /\ \A k \in 1..Len(lines) :
        IsEnd(lines[k]) =>
            LET id == lines[k].event.toolCallId
                info == infos[EndCount(lines, k)]
            IN  /\ info.found <=> ExpectedOpen(Before(lines, k), id)
                /\ info.found =>
                    /\ info.buffer = ExpectedBuffer(Before(lines, k), id)
                    /\ info.name = ExpectedName(Before(lines, k), id)

\* C1 witness: A is started and gets a fragment, B gets a fragment of its
\* own, and A ends holding only its own fragment while B stays pending
C1_Witness ==
    /\ Len(lines) = 4
    /\ lines[1].event = Start("A", "get_weather")
    /\ lines[2].event = Args("A", DeltaOpen)
    /\ lines[3].event = Args("B", DeltaSingleQuoted)
    /\ lines[4].event = End("A", None)
    /\ infos = <<[found |-> TRUE, name |-> "get_weather", buffer |-> DeltaOpen]>>
    /\ pending_tool_calls = [i \in {"B"} |->
                               [name |-> None, buffer |-> DeltaSingleQuoted]]

\* the arguments {"include_temperature": 1}
TemperatureOn == PyDict([k \in {<<"include_temperature">>} |-> PyInt(1)])

\* C2: START(id, N), then fragments for id that concatenate to a JSON
\* object, then END(id): the dispatcher is invoked exactly once for that END
\* (one call and one popped info per END line) with the call
\* {toolCallName: N, toolCallId: id, arguments: the decoded object}, and the
\* entry of id is gone from the pending map.
C2_AssembledCall ==
    /\ Len(calls) = EndCount(lines, Len(lines))
    /\ \A k \in 1..Len(lines) :
        LET id == lines[k].event.toolCallId
            h == Before(lines, k)
            r == LastReset(h, id, Len(h))
            buf == ExpectedBuffer(h, id)
        IN  (/\ IsEnd(lines[k])
             /\ r > 0
             /\ IsToolEv(h[r], "TOOL_CALL_START", id)
             /\ json_loads(buf).ok
             /\ json_loads(buf).val.t = "dict")
            => /\ calls[EndCount(lines, k)] =
                    [toolCallName |-> h[r].event.toolCallName,
                     toolCallId |-> id,
                     arguments |-> json_loads(buf).val]
               /\ buf = DeltaOpen \o DeltaClose
                    => calls[EndCount(lines, k)].arguments = TemperatureOn
               /\ k = Len(lines) => id \notin DOMAIN pending_tool_calls

\* C2 witness: START(A, read_climate_sensors), {"include_temperature": and
\* 1} as two fragments, END(A): one call, with the decoded object
C2_Witness ==
    /\ Len(lines) = 4
    /\ lines[1].event = Start("A", "read_climate_sensors")
    /\ lines[2].event = Args("A", DeltaOpen)
    /\ lines[3].event = Args("A", DeltaClose)
    /\ lines[4].event = End("A", None)
    /\ calls = <<[toolCallName |-> "read_climate_sensors", toolCallId |-> "A",
                  arguments |-> TemperatureOn]>>
    /\ "A" \notin DOMAIN pending_tool_calls

\* the arguments {"x": 1}
XisOne == PyDict([k \in {<<"x">>} |-> PyInt(1)])

\* the cycle was ended by an exception
Aborted == pc = "exited" /\ exc # NoExc

\* C3: at TOOL_CALL_END the buffer is decoded strictly; if that fails, once
\* more with single quotes replaced by double quotes; if both fail, or the
\* buffer is empty, the call carries the empty object.  Nothing the
\* assembler does ends the cycle: only a failed tool_result POST does.
C3_ParseFallback ==
    /\ \A k \in 1..Len(lines) :
        LET id == lines[k].event.toolCallId
            h == Before(lines, k)
            buf == ExpectedBuffer(h, id)
            args == calls[EndCount(lines, k)].arguments
        IN  (IsEnd(lines[k]) /\ ExpectedOpen(h, id)) =>
              /\ json_loads(buf).ok => args = json_loads(buf).val
              /\ (~json_loads(buf).ok /\ json_loads(ReplaceQuotes(buf)).ok)
                    => args = json_loads(ReplaceQuotes(buf)).val
              /\ (~json_loads(buf).ok /\ ~json_loads(ReplaceQuotes(buf)).ok)
                    => args = EmptyDict
              /\ buf = <<>> => args = EmptyDict
              /\ buf = DeltaSingleQuoted => args = XisOne
              /\ buf = DeltaOpen => args = EmptyDict
    /\ Aborted =>
        /\ IsEnd(lines[Len(lines)])
        /\ ~posts[Len(posts)].returned
        /\ exc = "httpx.TransportError"

\* C3 witness: A ends holding the undecodable buffer {"include_temperature":
\* , the call carries {}, and the text event that follows is yielded
C3_Witness ==
    /\ Len(lines) = 4
    /\ lines[1].event = Start("A", "read_climate_sensors")
    /\ lines[2].event = Args("A", DeltaOpen)
    /\ lines[3].event = End("A", None)
    /\ lines[4].event = Text
    /\ calls = <<[toolCallName |-> "read_climate_sensors", toolCallId |-> "A",
                  arguments |-> EmptyDict]>>
    /\ yielded = <<Text>>
    /\ pc = "streaming"
    /\ exc = NoExc

\* the POSTs issued for the n-th dispatched call
PostsOfCall(n) == SelectSeq(posts, LAMBDA p : p.call = n)

\* the tool of call c is not registered, or its arguments do not bind to
\* the parameters of the registered function
ToolFails(c) ==
    \/ c.toolCallName \notin {"read_climate_sensors", "get_user_location"}
    \/ c.arguments.t # "dict"
    \/ c.toolCallName = "get_user_location" /\ DOMAIN c.arguments.v # {}
    \/ /\ c.toolCallName = "read_climate_sensors"
       /\ \E key \in DOMAIN c.arguments.v :
            key \notin {<<"include_temperature">>, <<"include_humidity">>}

\* C4: a call whose tool is not in the registry, or whose handler raises
\* (the arguments do not bind to its parameters), gets an error result
\* posted back under its call id and no result; the tool's exception never
\* leaves send_message, and the cycle goes on unless that POST itself
\* fails in the transport.
C4_ToolFailureContained ==
    /\ \A n \in 1..Len(calls) :
        ToolFails(calls[n]) =>
            LET ps == PostsOfCall(n)
            IN  /\ Len(ps) = 1
                /\ ps[1].field = "error"
                /\ ps[1].tool_call_id = calls[n].toolCallId
    /\ exc \notin {"ValueError", "TypeError"}
    /\ exc = "httpx.TransportError" =>
        /\ IsEnd(lines[Len(lines)])
        /\ ~posts[Len(posts)].returned

\* C4 witness: get_weather is not a frontend tool; its error is posted
\* under id A, and the text event after it is yielded
C4_Witness ==
    /\ Len(lines) = 3
    /\ lines[1].event = Start("A", "get_weather")
    /\ lines[2].event = End("A", None)
    /\ lines[3].event = Text
    /\ Len(posts) = 1
    /\ posts[1].field = "error"
    /\ posts[1].tool_call_id = "A"
    /\ posts[1].value = PyStr("Unknown tool")
    /\ yielded = <<Text>>
    /\ pc = "streaming"

\* C5 as claimed: every dispatched call has exactly one tool_result POST,
\* under its call id, with a result field if and only if the tool was
\* resolved and returned, and an error field otherwise, also when a POST
\* fails.
C5_ExactlyOnePost ==
    \A n \in 1..Len(calls) :
        LET ps == PostsOfCall(n)
        IN  /\ Len(ps) = 1
            /\ ps[1].tool_call_id = calls[n].toolCallId
            /\ ps[1].field = (IF ToolFails(calls[n]) THEN "error" ELSE "result")

\* line ln decodes to a RUN_STARTED event carrying thread id t
IsStarted(ln, t) ==
    /\ ln.marker
    /\ ln.json = "object"
    /\ ln.event.type = "RUN_STARTED"
    /\ ln.event.threadId = t

\* C6: once the session holds a thread id (a non-empty one, which is what
\* the code tests), no step changes it, whatever threadId a later
\* RUN_STARTED carries, in this cycle or a later one; the thread id changes
\* only while none is held, and only to the threadId of the RUN_STARTED
\* event just consumed.
C6_FirstThreadIdWins ==
    [][/\ Truthy(thread_id) => thread_id' = thread_id
       /\ thread_id' # thread_id =>
            /\ Len(lines') = Len(lines) + 1
            /\ IsStarted(lines'[Len(lines')], thread_id')]_vars

\* C6 witness: the thread id T1 was set in an earlier cycle (the run request
\* carried it), this cycle's RUN_STARTED carries T2, and T1 stays
C6_Witness ==
    /\ request = "T1"
    /\ Len(lines) = 1
    /\ lines[1] = Line(TRUE, "object", Started("T2"))
    /\ yielded = <<Started("T2")>>
    /\ thread_id = "T1"

\* C7 as claimed: after the thread id has been set, every outbound request
\* of the session, run requests and tool_result POSTs alike, carries it,
\* and no request made before carries one.
C7_EveryRequestCarriesThread ==
    /\ request # None => request = thread_id
    /\ request # None => \A i \in 1..Len(posts) : posts[i].thread_id = request

\* C7 amended: a run request carries a thread id exactly when one was set
\* before the request was made, and then it is the session's; a thread id
\* the request does not carry was set during the cycle by a RUN_STARTED;
\* the tool_result POSTs never carry a thread id.
C7_RunRequestCarriesThread ==
    /\ request # None => (Truthy(request) /\ request = thread_id)
    /\ (Truthy(thread_id) /\ request = None) =>
        \E k \in 1..Len(lines) : IsStarted(lines[k], thread_id)
    /\ \A i \in 1..Len(posts) : posts[i].thread_id = None

\* C7 witness: T1 was set in an earlier cycle, this cycle's run request
\* carries it, and a tool_result POST has been made in this cycle
C7_Witness ==
    /\ thread_id = "T1"
    /\ request = "T1"
    /\ pc = "streaming"
    /\ Len(posts) > 0

\* the events among h[1..k] that are decoded and are no tool-call events
RECURSIVE NonToolEvents(_, _)
NonToolEvents(h, k) ==
    IF k = 0 THEN <<>>
    ELSE NonToolEvents(h, k - 1)
         \o (IF /\ h[k].marker
                /\ h[k].json = "object"
                /\ h[k].event.type \notin
                     {"TOOL_CALL_START", "TOOL_CALL_ARGS", "TOOL_CALL_END"}
                 THEN <<h[k].event>> ELSE <<>>)

\* C8: what the caller of send_message has been given is exactly the
\* decoded events that are not TOOL_CALL_START, TOOL_CALL_ARGS or
\* TOOL_CALL_END, each once, unchanged, in arrival order (RUN_*, text and
\* unknown kinds alike).
C8_CallerSeesNonToolEvents ==
    yielded = NonToolEvents(lines, Len(lines))

\* C8 witness: RUN_STARTED, a tool-call start and an event of unknown kind
\* have arrived; the caller was given the first and the last
C8_Witness ==
    /\ Len(lines) = 3
    /\ lines[1].event = Started("T1")
    /\ lines[2].event = Start("A", "get_weather")
    /\ lines[3] = Line(TRUE, "object", Plain("CUSTOM"))
    /\ yielded = <<Started("T1"), Plain("CUSTOM")>>

\* the step consumed a line
Consumed == Len(lines') = Len(lines) + 1

\* C9: consuming a line that does not start with "data: " changes nothing
\* but the position in the stream: nothing is yielded, dispatched or
\* posted, the pending map and the thread id stay, the cycle goes on.
C9_NonDataLineNoEffect ==
    [][(Consumed /\ ~lines'[Len(lines')].marker) =>
          UNCHANGED <<thread_id, pc, conn, pending_tool_calls, yielded, infos,
                      calls, posts, request, sends, exc>>]_vars

\* C9 witness: with A pending and no thread id, a line that would be
\* RUN_STARTED(T2) had it the marker has been consumed without effect
C9_Witness ==
    /\ Len(lines) = 2
    /\ lines[1].event = Start("A", "get_weather")
    /\ lines[2] = Line(FALSE, "object", Started("T2"))
    /\ thread_id = None
    /\ yielded = <<>>
    /\ DOMAIN pending_tool_calls = {"A"}
    /\ pc = "streaming"

\* C10 as claimed: a data frame whose payload does not decode into an event
\* (no JSON text, or a JSON value that is no object) is skipped: nothing
\* but the position in the stream changes and the cycle goes on.
C10_UndecodableFrameSkipped ==
    [][(/\ Consumed
        /\ lines'[Len(lines')].marker
        /\ lines'[Len(lines')].json # "object") =>
          UNCHANGED <<thread_id, pc, conn, pending_tool_calls, yielded, infos,
                      calls, posts, request, sends, exc>>]_vars

\* what the END handler makes of a buffer: the strict decode, else the
\* decode with the single quotes replaced, else {}
DecodedOrEmpty(buf) ==
    IF json_loads(buf).ok THEN json_loads(buf).val
    ELSE IF json_loads(ReplaceQuotes(buf)).ok
        THEN json_loads(ReplaceQuotes(buf)).val
    ELSE EmptyDict

\* id was not started since it last ended (or ever) in h
Unstarted(h, id) ==
    LET r == LastReset(h, id, Len(h))
    IN  r = 0 \/ IsToolEv(h[r], "TOOL_CALL_END", id)

\* C11: a TOOL_CALL_ARGS for an id without a pending entry creates the entry
\* with that fragment (and the name the ARGS event carries, None); a later
\* TOOL_CALL_END for the id gives one call with that name and the arguments
\* decoded from the buffered fragments, and no exception of the assembler or
\* of the tool lookup leaves the cycle.
C11_ArgsWithoutStart ==
    /\ \A k \in 1..Len(lines) :
        LET id == lines[k].event.toolCallId
            h == Before(lines, k)
        IN  /\ (/\ k = Len(lines)
                /\ IsToolEv(lines[k], "TOOL_CALL_ARGS", id)
                /\ ~ExpectedOpen(h, id))
               => /\ id \in DOMAIN pending_tool_calls
                  /\ pending_tool_calls[id] =
                        [name |-> lines[k].event.toolCallName,
                         buffer |-> lines[k].event.delta]
            /\ (IsEnd(lines[k]) /\ ExpectedOpen(h, id) /\ Unstarted(h, id))
               => calls[EndCount(lines, k)] =
                    [toolCallName |-> None,
                     toolCallId |-> id,
                     arguments |-> DecodedOrEmpty(ExpectedBuffer(h, id))]
    /\ exc \in {NoExc, "httpx.TransportError"}
    /\ exc = "httpx.TransportError" => ~posts[Len(posts)].returned

\* C11 witness: {'x':1} arrives for A, which was never started, and A ends:
\* the call has no name and the arguments {"x": 1}, and the cycle goes on
C11_Witness ==
    /\ Len(lines) = 2
    /\ lines[1].event = Args("A", DeltaSingleQuoted)
    /\ lines[2].event = End("A", None)
    /\ calls = <<[toolCallName |-> None, toolCallId |-> "A",
                  arguments |-> XisOne]>>
    /\ pc = "streaming"
    /\ exc = NoExc

IsRunError(ln) ==
    ln.marker /\ ln.json = "object" /\ ln.event.type = "RUN_ERROR"

\* C12: a RUN_ERROR event is handed to the caller and ends the run: of the
\* lines that follow it in the stream none is forwarded to the caller and
\* none is dispatched to a tool.
C12_RunErrorTerminates ==
    \A k \in 1..Len(lines) :
        IsRunError(lines[k]) =>
            /\ yielded = NonToolEvents(lines, k)
            /\ Len(calls) = EndCount(lines, k)

\* the cycle was ended by a failure of the transport: the request could not
\* be sent, the response status was not a success, the connection dropped
\* while the response was read, or a tool_result POST failed
TransportFailed ==
    exc \in {"httpx.ConnectError", "httpx.HTTPStatusError", "httpx.ReadError",
             "httpx.TransportError"}

C13_FailureState ==
    /\ sends \in {0, 1}
    /\ sends = 0 => /\ request = None
                    /\ lines = <<>>
                    /\ exc \in {NoExc, "KeyboardInterrupt"}
    /\ TransportFailed =>
        /\ sends = 1
        /\ pc = "exited"
        /\ conn = "closed"
        /\ yielded = NonToolEvents(lines, Len(lines))

C14_LoopSurvivesErrors ==
    pc = "exited" => exc \in {NoExc, "KeyboardInterrupt"}

\* C15: every TOOL_CALL_END gives exactly one assembled call.  When the map
\* holds no entry for its id (no START or ARGS since the last END of the id)
\* the call has the END event's own toolCallName and the empty object as
\* arguments.  Right after any TOOL_CALL_END its id is absent from the map.
C15_EndWithoutEntry ==
    /\ Len(calls) = EndCount(lines, Len(lines))
    /\ \A k \in 1..Len(lines) :
        LET id == lines[k].event.toolCallId
        IN  IsEnd(lines[k]) =>
              /\ ~ExpectedOpen(Before(lines, k), id) =>
                    calls[EndCount(lines, k)] =
                        [toolCallName |-> lines[k].event.toolCallName,
                         toolCallId |-> id,
                         arguments |-> EmptyDict]
              /\ k = Len(lines) => id \notin DOMAIN pending_tool_calls

\* reached: an END that names get_user_location arrives first in the stream
\* and the tool runs on the empty arguments
C15_Witness ==
    /\ Len(lines) = 1
    /\ lines[1].event = End("A", "get_user_location")
    /\ calls = <<[toolCallName |-> "get_user_location", toolCallId |-> "A",
                  arguments |-> EmptyDict]>>
    /\ Len(posts) = 1
    /\ posts[1].field = "result"
    /\ pending_tool_calls = EmptyMap

\* C16: the handling of a TOOL_CALL_END is finished before the next line is
\* read: in every state, each END consumed so far has its call dispatched
\* under its id and its tool_result POST issued, the POSTs are in the order
\* of the END events, and the events forwarded to the caller are exactly the
\* non-tool events consumed so far, in stream order.
C16_EndHandledInOrder ==
    /\ Len(calls) = EndCount(lines, Len(lines))
    /\ \A k \in 1..Len(lines) :
        IsEnd(lines[k]) =>
            LET n == EndCount(lines, k)
            IN  /\ calls[n].toolCallId = lines[k].event.toolCallId
                /\ PostsOfCall(n) # <<>>
                /\ \A i \in 1..Len(PostsOfCall(n)) :
                      PostsOfCall(n)[i].tool_call_id =
                          lines[k].event.toolCallId
    /\ \A i, j \in 1..Len(posts) : i < j => posts[i].call <= posts[j].call
    /\ yielded = NonToolEvents(lines, Len(lines))

\* reached: END for A, a text event, END for B; the POST for A precedes the
\* POST for B and the text event was forwarded
C16_Witness ==
    /\ Len(lines) = 3
    /\ lines[1].event = End("A", None)
    /\ lines[2].event = Text
    /\ lines[3].event = End("B", None)
    /\ Len(posts) = 2
    /\ posts[1].tool_call_id = "A"
    /\ posts[2].tool_call_id = "B"
    /\ yielded = <<Text>>
    /\ pc = "streaming"

\* C17: a cycle ends only when the stream closes or a transport failure
\* aborts it (a user interrupt apart): a step that leaves the streaming
\* state is the end of the response, with no line consumed and no
\* exception, or raises a transport failure, or is the interrupt.  In
\* particular no event, RUN_FINISHED included, ends the cycle.
C17_EndsOnlyOnClose ==
    [][(pc = "streaming" /\ pc' # "streaming") =>
          \/ pc' = "input" /\ exc' = NoExc /\ lines' = lines
          \/ TransportFailed'
          \/ exc' = "KeyboardInterrupt"]_vars

\* C18: every step that ends outside the streaming state (the end of the
\* response, a request that fails or is answered with an error status, an
\* exception raised while the response is read, a user interrupt) leaves
\* the connection released and the session's thread id as it was.
C18_ConnectionReleased ==
    [][pc' # "streaming" =>
          conn' = "closed" /\ thread_id' = thread_id]_vars

\* reached: the user interrupted a cycle that had captured thread id T1
C18_Witness ==
    /\ exc = "KeyboardInterrupt"
    /\ pc = "exited"
    /\ Len(lines) = 1
    /\ lines[1].event = Started("T1")
    /\ thread_id = "T1"
    /\ conn = "closed"

\* what the cycle holds and has dispatched is a function of the lines of
\* this cycle alone
C19_OwnLinesOnly ==
    /\ \A id \in DOMAIN pending_tool_calls :
        /\ ExpectedOpen(lines, id)
        /\ pending_tool_calls[id].buffer = ExpectedBuffer(lines, id)
        /\ pending_tool_calls[id].name = ExpectedName(lines, id)
    /\ Len(calls) = EndCount(lines, Len(lines))
    /\ \A k \in 1..Len(lines) :
        LET id == lines[k].event.toolCallId
            h == Before(lines, k)
        IN  IsEnd(lines[k]) =>
              calls[EndCount(lines, k)] =
                  [toolCallName |-> IF ExpectedOpen(h, id)
                                        THEN ExpectedName(h, id)
                                    ELSE lines[k].event.toolCallName,
                   toolCallId |-> id,
                   arguments |-> DecodedOrEmpty(ExpectedBuffer(h, id))]
    /\ \A i \in 1..Len(posts) :
        /\ posts[i].call \in 1..Len(calls)
        /\ posts[i].tool_call_id = calls[posts[i].call].toolCallId

\* C19: the pending map belongs to one cycle.  Each cycle starts with the
\* empty map; the entries it holds and the calls it dispatches come from
\* the lines of this cycle only; a call is dispatched, and a tool_result
\* posted, only for a TOOL_CALL_END, so an entry still open when the stream
\* closes gives neither, and gives nothing to a later cycle.
C19_PendingScopedToCycle ==
    /\ []C19_OwnLinesOnly
    /\ [][(pc = "input" /\ pc' # "input") =>
             pending_tool_calls' = EmptyMap]_vars

\* reached: the stream closed while A, started and given a fragment, was
\* still open; nothing was dispatched or posted
C19_Witness ==
    /\ pc = "input"
    /\ Len(lines) = 2
    /\ lines[1].event = Start("A", "read_climate_sensors")
    /\ lines[2].event = Args("A", DeltaOpen)
    /\ "A" \in DOMAIN pending_tool_calls
    /\ calls = <<>>
    /\ posts = <<>>

\* C20: the arguments of every call handed to the dispatcher are an object
\* (a key-to-value structure, possibly empty), whatever the buffer held.
C20_ArgumentsAreObject ==
    \A n \in 1..Len(calls) : calls[n].arguments.t = "dict"

====
